---- MODULE Spec2Model ----
(***************************************************************************)
(* Model of miniapps/shiftedBC/distfunction.cpp: the DistanceFunction      *)
(* object (constructor and ComputeDistance), the free functions            *)
(* DiffuseField and GetPrecondtioner, and the collective operations the    *)
(* processes of a parallel run issue.                                      *)
(*                                                                         *)
(* Real numbers are fixed-point integers.  Field values are in units of    *)
(* 1/One, lengths (dx) in units of 1/DxScale; every real operation rounds  *)
(* down to the unit.  The mesh is a chain of NElems cells with NDofs       *)
(* nodes, distributed over NRanks partitions.                              *)
(***************************************************************************)
EXTENDS Integers, Sequences, FiniteSets, TLC

\* ---------------------------------------------------------------- bounds
NRanks == 2
ElemsPerRank == 1
MaxOrder == 2
MaxVol == 2
MaxCalls == 2
MaxSmooth == 1
Half == 2
NProcs == 3
MaxRuns == 2

One == 2 * Half
NElems == NRanks * ElemsPerRank
NDofs == NElems + 1
DxScale == MaxOrder * NElems
Ranks == 1..NRanks
Elems == 1..NElems
Dofs == 1..NDofs

VARIABLES
    phase,            \* "unconstructed", "ready" or "aborted"
    err,              \* diagnostic of the abort, "" if none
    abortedIn,        \* function that aborted, "" if none
    mesh,             \* the ParMesh handed to the constructor
    amgxBuild,        \* whether the build defines MFEM_USE_AMGX
    order,            \* constructor argument order
    use_amgx,         \* member use_amgx
    dx,               \* member dx
    ess_tdof_list,    \* member ess_tdof_list
    ess_at_ctor,      \* value of ess_tdof_list when the constructor returned
    source,           \* member source
    diffused_source,  \* member diffused_source
    distance,         \* member distance
    calls,            \* completed ComputeDistance calls
    lastArgs,         \* arguments of the latest ComputeDistance call
    srcPre,           \* source of the latest call right before line 114
    solveLog,         \* the cg.Mult calls of the latest call, in order
    live,             \* transient heap objects allocated and not deleted
    comm,             \* members of pfes.GetComm()
    prog,             \* collectives issued by each member, in program order
    at,               \* per process: collectives completed
    inColl            \* per process: blocked inside collective at[p] + 1

objVars == <<phase, err, abortedIn, mesh, amgxBuild, order, use_amgx, dx,
             ess_tdof_list, ess_at_ctor, source, diffused_source, distance,
             calls, lastArgs, srcPre, solveLog, live>>
mpiVars == <<comm, prog, at, inColl>>
vars == <<objVars, mpiVars>>

\* ------------------------------------------------------------ arithmetic
\* Storage that was allocated and never assigned.
Uninit == << >>
Unset == 0 - 1
NoArgs == [level_set |-> << >>, smooth_steps |-> Unset, transform |-> FALSE]

\* Values an uninitialized double can be read as.
UninitVals == {0, 1}
UninitFields == {[i \in Dofs |-> v] : v \in UninitVals}

MinOf(S) == CHOOSE m \in S : \A x \in S : m <= x
MaxOf(S) == CHOOSE m \in S : \A x \in S : m >= x

RECURSIVE SumTo(_, _)
SumTo(f, n) == IF n = 0 THEN 0 ELSE f[n] + SumTo(f, n - 1)

\* sqrt() and pow(., 1.0/3.0) on fixed-point numbers, rounding down.
Sqrt(n) == CHOOSE r \in 0..n : r * r <= n /\ n < (r + 1) * (r + 1)
Cbrt(n) == CHOOSE r \in 0..n : r * r * r <= n /\ n < (r + 1) * (r + 1) * (r + 1)

\* --------------------------------------------------------------- the mesh
Geometries == {"POINT", "SEGMENT", "TRIANGLE", "SQUARE", "TETRAHEDRON",
               "CUBE", "PRISM"}
Supported == {"SEGMENT", "TRIANGLE", "SQUARE", "TETRAHEDRON", "CUBE"}

\* A mesh of similar cells: the geometry of its cells, the measure of one
\* cell, and whether it has boundary attributes.
Meshes == [geom : Geometries, vol : 1..MaxVol, bdr : BOOLEAN]

\* The meshes of unit cells that are chains of segments, and the same with
\* a cell type the constructor has no case for.
ChainMeshes == [geom : {"SEGMENT", "POINT"}, vol : {1}, bdr : BOOLEAN]

ElemRank(e) == ((e - 1) % NRanks) + 1
LocalElems(r) == {e \in Elems : ElemRank(e) = r}
LocalDofs(r) == {i \in Dofs : \E e \in LocalElems(r) : i \in {e, e + 1}}

\* pfes.GetEssentialTrueDofs with every boundary attribute marked: the two
\* end nodes of the chain.
BoundaryDofs == {1, NDofs}

\* ------------------------------------------------- DistanceFunction(...)
\* Lines 24-31: loc_area of partition r, and the MPI_SUM reduction of it
\* over pfes.GetComm().
LocArea(m, r) == Cardinality(LocalElems(r)) * m.vol
RECURSIVE SumAreas(_, _)
SumAreas(m, r) == IF r = 0 THEN 0 ELSE LocArea(m, r) + SumAreas(m, r - 1)
GlobArea(m) == SumAreas(m, NRanks)

\* Line 33: pmesh.GetGlobalNE().
GlobZones == NElems

\* Mutant: the default label of the switch does not abort.
UnknownZoneType_Never(geom) == FALSE

\* Line 46: the default label of the switch aborts.
UnknownZoneType(geom) == geom \notin Supported

\* Mutant: the TRIANGLE case lacks the factor 2.
ZoneSize_TriangleAsSquare(geom, glob_area, glob_zones) ==
    CASE geom = "SEGMENT" -> (DxScale * glob_area) \div glob_zones
      [] geom \in {"SQUARE", "TRIANGLE"} ->
            Sqrt((DxScale * DxScale * glob_area) \div glob_zones)
      [] geom = "CUBE" ->
            Cbrt((DxScale * DxScale * DxScale * glob_area) \div glob_zones)
      [] geom = "TETRAHEDRON" ->
            Cbrt((6 * DxScale * DxScale * DxScale * glob_area) \div glob_zones)
      [] OTHER -> Unset

\* Lines 34-47: the switch on the geometry of element 0.  A geometry that
\* has no case leaves dx as it was.
ZoneSize(geom, glob_area, glob_zones) ==
    CASE geom = "SEGMENT" -> (DxScale * glob_area) \div glob_zones
      [] geom = "SQUARE" -> Sqrt((DxScale * DxScale * glob_area) \div glob_zones)
      [] geom = "TRIANGLE" ->
            Sqrt((2 * DxScale * DxScale * glob_area) \div glob_zones)
      [] geom = "CUBE" ->
            Cbrt((DxScale * DxScale * DxScale * glob_area) \div glob_zones)
      [] geom = "TETRAHEDRON" ->
            Cbrt((6 * DxScale * DxScale * DxScale * glob_area) \div glob_zones)
      [] OTHER -> Unset

\* Mutant: line 48 subtracts the order instead of dividing by it.
CellSize_Subtract(geom, glob_area, glob_zones, ord) ==
    ZoneSize(geom, glob_area, glob_zones) - DxScale * ord

\* Lines 34-48: dx as the constructor leaves it.
CellSize(geom, glob_area, glob_zones, ord) ==
    ZoneSize(geom, glob_area, glob_zones) \div ord

\* Lines 52-57: the list of true essential boundary dofs.
EssentialTrueDofs(m) == IF m.bdr THEN BoundaryDofs ELSE {}

NoHeap == [Lap |-> 0, A |-> 0, S |-> 0, prec |-> 0]

Construct(ord, amgx) ==
    /\ phase = "unconstructed"
    /\ order' = ord
    /\ use_amgx' = amgx
    /\ IF UnknownZoneType(mesh.geom)
       THEN /\ phase' = "aborted"
            /\ err' = "Unknown zone type!"
            /\ abortedIn' = "DistanceFunction"
            /\ UNCHANGED <<dx, ess_tdof_list, ess_at_ctor>>
       ELSE /\ phase' = "ready"
            /\ dx' = CellSize(mesh.geom, GlobArea(mesh), GlobZones, ord)
            /\ ess_tdof_list' = EssentialTrueDofs(mesh)
            /\ ess_at_ctor' = EssentialTrueDofs(mesh)
            /\ UNCHANGED <<err, abortedIn>>
    /\ UNCHANGED <<mesh, amgxBuild, source, diffused_source, distance, calls,
                   lastArgs, srcPre, solveLog, live, mpiVars>>

\* ---------------------------------------------------------- DiffuseField
New(heap, what) == [heap EXCEPT ![what] = @ + 1]
Delete(heap, what) == [heap EXCEPT ![what] = @ - 1]

Left(i) == IF i = 1 THEN 1 ELSE i - 1
Right(i) == IF i = NDofs THEN NDofs ELSE i + 1

\* One pass of the relaxation smoother on the discrete Laplacian.
SmoothPass(f) == [i \in Dofs |-> (f[Left(i)] + 2 * f[i] + f[Right(i)]) \div 4]
RECURSIVE SmootherMult(_, _)
SmootherMult(f, k) == IF k = 0 THEN f ELSE SmootherMult(SmoothPass(f), k - 1)

\* Lines 60-82: the smoothed field, and the heap after the function.
DiffuseField(field, smooth_steps, heap) ==
    LET h1 == New(heap, "Lap")
        h2 == New(h1, "A")
        h3 == New(h2, "S")
        h4 == Delete(h3, "S")
        h5 == Delete(h4, "Lap")
    IN  [field |-> SmootherMult(field, smooth_steps), heap |-> h5]

\* ------------------------------------------------------ GetPrecondtioner
PrecError == "AMGX not enabled"
GetPrecondtioner(amgx, build) ==
    IF build
    THEN IF amgx THEN "AmgXSolver" ELSE "HypreBoomerAMG"
    ELSE IF amgx THEN PrecError ELSE "HypreBoomerAMG"

\* ------------------------------------------------------- ComputeDistance
\* Mutant: line 119 without the test x > 1.
PeakTransform_NoUpperTest(x) ==
    IF x < 0 THEN 0 ELSE (4 * x * (One - x)) \div One

\* Line 119.
PeakTransform(x) ==
    IF (x < 0) \/ (x > One) THEN 0 ELSE (4 * x * (One - x)) \div One

\* Lines 114-121.
TransformSource(src, transform) ==
    IF transform THEN [i \in Dofs |-> PeakTransform(src[i])] ELSE src

\* FormLinearSystem, cg.Mult and RecoverFEMSolution: constrained dofs keep
\* the value of the starting field x0, the others get the solution sol.
LinearSolve(ess, x0, sol) == [i \in Dofs |-> IF i \in ess THEN x0[i] ELSE sol[i]]

\* Solution of (M + dt L) u = M src on the unconstrained dofs.
DiffusionSolution(src) ==
    [i \in Dofs |-> (src[Left(i)] + 2 * src[i] + src[Right(i)]) \div 4]

Sgn(x) == IF x > 0 THEN 1 ELSE IF x < 0 THEN -1 ELSE 0

\* Solution of L d = rhs for the normalized gradient of u: d falls by one
\* cell per cell in the direction u rises.  L is singular: the constant
\* part of the starting field x0 stays in the result.
RECURSIVE Integrate(_, _)
Integrate(u, i) ==
    IF i = 1 THEN 0 ELSE Integrate(u, i - 1) - Sgn(u[i] - u[i - 1])
PoissonSolution(u, x0) ==
    [i \in Dofs |-> Integrate(u, i) + (SumTo(x0, NDofs) \div NDofs)]

\* Line 179.
Average(u_neumann, u_dirichlet) ==
    [i \in Dofs |-> (u_neumann[i] + u_dirichlet[i]) \div 2]

\* Line 211 on partition r, and the MPI_MIN reduction of lines 213-214.
LocalMin(d, r) == MinOf({d[i] : i \in LocalDofs(r)})

\* Mutant: the reduction of lines 213-214 with MPI_MAX.
GlobalMin_MaxReduce(d) == MaxOf({LocalMin(d, r) : r \in Ranks})

GlobalMin(d) == MinOf({LocalMin(d, r) : r \in Ranks})

\* Line 215 on every partition.
Rescale(d) == LET d_min_glob == GlobalMin(d) IN [i \in Dofs |-> d[i] - d_min_glob]

\* Where the starting field of a solve got its value from.
Origin(field, assignedInCall) ==
    IF field = Uninit THEN "uninitialized"
    ELSE IF assignedInCall THEN "this_call" ELSE "previous_call"

\* What a read of the field yields.
ReadField(field, junk) == IF field = Uninit THEN junk ELSE field

\* The level sets handed to ComputeDistance: linear profiles through the
\* values below 0, inside [0, 1] and above 1.
Slopes == {0 - 1, 1}
LevelSets == {[i \in Dofs |-> a + s * (i - 1)] : a \in (0 - 1)..(One + 1), s \in Slopes}

ComputeDistance(level_set, smooth_steps, transform, junk_n, junk_d) ==
    /\ phase = "ready"
    /\ calls < MaxCalls
    /\ LET src0 == level_set
           df == IF smooth_steps > 0
                 THEN DiffuseField(src0, smooth_steps, live)
                 ELSE [field |-> src0, heap |-> live]
           src2 == TransformSource(df.field, transform)
           kind == GetPrecondtioner(use_amgx, amgxBuild)
           \* Step 1, Dirichlet.
           u_dirichlet0 == [i \in Dofs |-> 0]
           ess1 == ess_tdof_list
           u_dirichlet == LinearSolve(ess1, u_dirichlet0, DiffusionSolution(src2))
           log1 == [solve |-> "dirichlet", ess |-> ess1,
                    x0 |-> Origin(u_dirichlet0, TRUE), prec |-> 1]
           \* Step 1, Neumann.
           u_neumann0 == Uninit
           ess2 == {}
           u_neumann == LinearSolve(ess2, ReadField(u_neumann0, junk_n),
                                    DiffusionSolution(src2))
           log2 == [solve |-> "neumann", ess |-> ess2,
                    x0 |-> Origin(u_neumann0, FALSE), prec |-> 2]
           diffused == Average(u_neumann, u_dirichlet)
           \* Step 2.
           no_ess_tdofs == {}
           d0 == ReadField(distance, junk_d)
           d1 == LinearSolve(no_ess_tdofs, d0, PoissonSolution(diffused, d0))
           log3 == [solve |-> "poisson", ess |-> no_ess_tdofs,
                    x0 |-> Origin(distance, FALSE), prec |-> 3]
       IN  /\ source' = src2
           /\ srcPre' = df.field
           /\ lastArgs' = [level_set |-> level_set, smooth_steps |-> smooth_steps,
                           transform |-> transform]
           /\ IF kind = PrecError
              THEN /\ phase' = "aborted"
                   /\ err' = PrecError
                   /\ abortedIn' = "ComputeDistance"
                   /\ live' = df.heap
                   /\ solveLog' = << >>
                   /\ UNCHANGED <<ess_tdof_list, diffused_source, distance, calls>>
              ELSE /\ ess_tdof_list' = ess2
                   /\ diffused_source' = diffused
                   /\ distance' = Rescale(d1)
                   /\ solveLog' = <<log1, log2, log3>>
                   \* each preconditioner is deleted right after its solve
                   /\ live' = Delete(New(Delete(New(Delete(New(df.heap,
                                  "prec"), "prec"), "prec"), "prec"), "prec"), "prec")
                   /\ calls' = calls + 1
                   /\ UNCHANGED <<phase, err, abortedIn>>
    /\ UNCHANGED <<mesh, amgxBuild, order, use_amgx, dx, ess_at_ctor, mpiVars>>

\* ------------------------------------------------------- the object's life
World == 1..NProcs

InitMpi ==
    /\ comm = {}
    /\ prog = << >>
    /\ at = [p \in World |-> 0]
    /\ inColl = [p \in World |-> FALSE]

InitObject(meshes) ==
    /\ phase = "unconstructed"
    /\ err = ""
    /\ abortedIn = ""
    /\ mesh \in meshes
    /\ amgxBuild \in BOOLEAN
    /\ order = Unset
    /\ use_amgx = FALSE
    /\ dx = Unset
    /\ ess_tdof_list = {}
    /\ ess_at_ctor = {}
    /\ source = Uninit
    /\ diffused_source = Uninit
    /\ distance = Uninit
    /\ calls = 0
    /\ lastArgs = NoArgs
    /\ srcPre = Uninit
    /\ solveLog = << >>
    /\ live = NoHeap

Constructs == \E ord \in 1..MaxOrder, amgx \in BOOLEAN : Construct(ord, amgx)

Computes(levelSets) ==
    \E ls \in levelSets, k \in 0..MaxSmooth, tr \in BOOLEAN,
       jn \in UninitFields,
       jd \in (IF distance = Uninit THEN UninitFields ELSE {distance}) :
         ComputeDistance(ls, k, tr, jn, jd)

\* The life of one object on a chain mesh, under every level set.
Init == InitObject(ChainMeshes) /\ InitMpi
ComputesAny == Computes(LevelSets)
Next == Constructs \/ ComputesAny
Spec == Init /\ [][Next]_vars

\* The life of one object on every mesh, under the level sets of one slope
\* that start inside [0, 1].
ProbeLevelSets == {[i \in Dofs |-> a + (i - 1)] : a \in 0..One}
InitMesh == InitObject(Meshes) /\ InitMpi
ComputesProbe == Computes(ProbeLevelSets)
NextMesh == Constructs \/ ComputesProbe
SpecMesh == InitMesh /\ [][NextMesh]_vars


\* ------------------------------------------- the processes of a parallel run
\* The collectives of the constructor, in program order, each with the
\* communicator it is issued on.
CtorCollectives(bdr) ==
    <<[line |-> 30, op |-> "MPI_Allreduce MPI_SUM", on |-> "pfes.GetComm()"],
      [line |-> 33, op |-> "GetGlobalNE", on |-> "pfes.GetComm()"]>>
    \o (IF bdr
        THEN <<[line |-> 56, op |-> "GetEssentialTrueDofs", on |-> "pfes.GetComm()"]>>
        ELSE << >>)

\* The collectives of one ComputeDistance call.  The CGSolver is built on
\* MPI_COMM_WORLD (line 124), so the reductions inside cg.Mult run there.
CallCollectives(smooth_steps) ==
    (IF smooth_steps > 0
     THEN <<[line |-> 110, op |-> "DiffuseField", on |-> "pfes.GetComm()"]>>
     ELSE << >>)
    \o <<[line |-> 154, op |-> "cg.Mult", on |-> "MPI_COMM_WORLD"],
         [line |-> 173, op |-> "cg.Mult", on |-> "MPI_COMM_WORLD"],
         [line |-> 205, op |-> "cg.Mult", on |-> "MPI_COMM_WORLD"],
         [line |-> 213, op |-> "MPI_Allreduce MPI_MIN", on |-> "pfes.GetComm()"]>>

RECURSIVE Program(_, _, _)
Program(bdr, smooth_steps, runs) ==
    IF runs = 0 THEN CtorCollectives(bdr)
    ELSE Program(bdr, smooth_steps, runs - 1) \o CallCollectives(smooth_steps)

\* The processes of the communicator a collective is issued on.
Group(c) == IF c.on = "MPI_COMM_WORLD" THEN World ELSE comm

\* A member of the mesh's communicator calls its next collective and blocks.
Enter(p) ==
    /\ p \in comm
    /\ ~inColl[p]
    /\ at[p] < Len(prog)
    /\ inColl' = [inColl EXCEPT ![p] = TRUE]
    /\ UNCHANGED <<objVars, comm, prog, at>>

\* Collective k completes once every process of its communicator is in it.
Complete(k) ==
    /\ Group(prog[k]) # {}
    /\ \A q \in Group(prog[k]) : inColl[q] /\ at[q] = k - 1
    /\ at' = [q \in World |-> IF q \in Group(prog[k]) THEN k ELSE at[q]]
    /\ inColl' = [q \in World |-> IF q \in Group(prog[k]) THEN FALSE ELSE inColl[q]]
    /\ UNCHANGED <<objVars, comm, prog>>

\* The processes of MPI_COMM_WORLD; those of a nonempty sub-communicator own
\* the mesh and all construct the object and call ComputeDistance with the
\* same arguments.
InitColl ==
    /\ InitObject([geom : {"SEGMENT"}, vol : {1}, bdr : BOOLEAN])
    /\ comm \in (SUBSET World) \ {{}}
    /\ \E smooth_steps \in 0..MaxSmooth, runs \in 1..MaxRuns :
         prog = Program(mesh.bdr, smooth_steps, runs)
    /\ at = [p \in World |-> 0]
    /\ inColl = [p \in World |-> FALSE]

Enters == \E p \in World : Enter(p)
Completes == \E k \in 1..Len(prog) : Complete(k)
NextColl == Enters \/ Completes
SpecColl == InitColl /\ [][NextColl]_vars


\* ================================================================ claims
RECURSIVE Pow(_, _)
Pow(b, n) == IF n = 0 THEN 1 ELSE b * Pow(b, n - 1)

Called == lastArgs # NoArgs

\* C1: across any sequence of ComputeDistance calls the essential dof set
\* computed at construction never changes, every call constrains its
\* Dirichlet solve on exactly that set, and the Neumann and Poisson solves
\* of the call use the empty set.
C1_EssentialDofSetFixed ==
    /\ phase = "ready" => ess_tdof_list = ess_at_ctor
    /\ \A k \in 1..Len(solveLog) :
         solveLog[k].ess = (IF solveLog[k].solve = "dirichlet" THEN ess_at_ctor ELSE {})

\* C2: a ComputeDistance call with the arguments of the call before it
\* returns the distance field that call returned.
C2_Repeatable ==
    [][(calls' = calls + 1 /\ lastArgs' = lastArgs) => distance' = distance]_vars

\* C3: when ComputeDistance has returned, no value of the distance field on
\* any partition is negative and the minimum over all partitions is 0.
C3_MinimumIsZero ==
    calls > 0 =>
        /\ \A r \in Ranks : \A i \in LocalDofs(r) : distance[i] >= 0
        /\ \E r \in Ranks : \E i \in LocalDofs(r) : distance[i] = 0

\* A returned field whose zero lies on the last partition only.
C3_Witness ==
    /\ calls > 0
    /\ distance[NDofs] = 0
    /\ \A i \in Dofs \ {NDofs} : distance[i] > 0

\* C4 as claimed: every abort with a configuration error happens in the
\* constructor.
C4_AllErrorsAtConstruction ==
    phase = "aborted" => abortedIn = "DistanceFunction"

\* C4 as amended: an unsupported cell geometry aborts the constructor and no
\* object with such a geometry exists; a GPU preconditioner requested in a
\* build without it aborts the first ComputeDistance call of the object,
\* before any solve has run.
C4_GeometryAtConstructionAmgxAtFirstCall ==
    /\ phase = "ready" => mesh.geom \in Supported
    /\ phase = "aborted" => err \in {"Unknown zone type!", PrecError}
    /\ err = "Unknown zone type!" => abortedIn = "DistanceFunction"
    /\ err = PrecError =>
         /\ abortedIn = "ComputeDistance"
         /\ use_amgx /\ ~amgxBuild
         /\ calls = 0
         /\ solveLog = << >>
    /\ (phase = "ready" /\ use_amgx /\ ~amgxBuild) => calls = 0

C4_Witness ==
    /\ phase = "aborted"
    /\ abortedIn = "ComputeDistance"
    /\ err = PrecError

\* C5: with applyPeakTransform every nodal value x of the source becomes 0
\* if x < 0 or x > 1 and 4x(1-x) (rounded down to the unit) otherwise, so it
\* lies in [0, 1], 0 and 1 go to 0 and 0.5 goes to 1; without it the source
\* is the smoothed projection unchanged.
C5_PeakTransform ==
    Called =>
        IF lastArgs.transform
        THEN \A i \in Dofs :
               LET x == srcPre[i]
                   y == source[i]
               IN  /\ (x < 0 \/ x > One) => y = 0
                   /\ (0 <= x /\ x <= One) =>
                        /\ One * y <= 4 * x * (One - x)
                        /\ 4 * x * (One - x) < One * (y + 1)
                   /\ 0 <= y /\ y <= One
                   /\ (x = 0 \/ x = One) => y = 0
                   /\ 2 * x = One => y = One
        ELSE source = srcPre

\* A transformed source with a value above 1, the value 1 and a value
\* strictly between 0 and 1.
C5_Witness ==
    /\ Called
    /\ lastArgs.transform
    /\ \E i \in Dofs : srcPre[i] > One /\ source[i] = 0
    /\ \E i \in Dofs : srcPre[i] = One /\ source[i] = 0
    /\ \E i \in Dofs : 0 < srcPre[i] /\ srcPre[i] < One /\ source[i] > 0

\* C6: dx of a constructed object is, to the fixed-point unit, the root the
\* geometry prescribes of c * A / N divided by the order (A the sum of the
\* cell measures of all partitions, N the global cell count; segment A/N,
\* square sqrt(A/N), triangle sqrt(2A/N), cube cbrt(A/N), tetrahedron
\* cbrt(6A/N)); for any other geometry no object exists.
Factor(geom) == CASE geom = "TRIANGLE" -> 2 [] geom = "TETRAHEDRON" -> 6 [] OTHER -> 1
Root(geom) == CASE geom = "SEGMENT" -> 1
                [] geom \in {"SQUARE", "TRIANGLE"} -> 2
                [] OTHER -> 3
C6_CellSizeByGeometry ==
    /\ phase = "ready" =>
         LET A == NElems * mesh.vol
             N == NElems
             p == Root(mesh.geom)
             q == Factor(mesh.geom) * A * Pow(DxScale, p)
         IN  /\ mesh.geom \in Supported
             /\ dx # Unset
             /\ Pow(order * dx, p) * N <= q
             /\ q < Pow(order * (dx + 1), p) * N
    /\ mesh.geom \notin Supported => phase # "ready"

\* An object of order above 1 on a mesh of triangles.
C6_Witness ==
    /\ phase = "ready"
    /\ mesh.geom = "TRIANGLE"
    /\ order > 1

C8_NoProcessBlockedForever ==
    \A p \in comm :
        inColl[p] => \A q \in Group(prog[at[p] + 1]) : q \in comm

\* C9: after any number of calls no transient operator, smoother or
\* preconditioner is still allocated, and no preconditioner served two
\* solves.
C9_TransientsReleased ==
    /\ \A w \in DOMAIN live : live[w] = 0
    /\ \A j, k \in 1..Len(solveLog) : solveLog[j].prec = solveLog[k].prec => j = k

\* C10: every field a solve starts from was assigned within the same call.
C10_StartValuesAssigned ==
    \A k \in 1..Len(solveLog) : solveLog[k].x0 = "this_call"

====
